---- MODULE Spec2Model ----
(***************************************************************************)
(* Project Dashboard core: the Process Execution Tracker                   *)
(* (ExecutionService), the Configuration Store (ConfigurationService with  *)
(* the YAML serializer) and the Project Orchestrator (ProjectService) of   *)
(* src/src/core/services.py, over the capabilities of                      *)
(* src/src/core/interfaces.py.                                             *)
(*                                                                         *)
(* A process handle (IRunningProcess) is a number h; the run_target call   *)
(* that obtains it is the task with the same number.  Handles are numbered *)
(* in the order in which ShellCapability.execute returns them.  A          *)
(* load_project call is a number c, numbered in the order of the calls.    *)
(*                                                                         *)
(* A path is a record [abs, parts]: whether it starts with "/", and its    *)
(* components.  The empty string is the relative path without components.  *)
(* A YAML text is modelled by the document it encodes.                     *)
(***************************************************************************)
EXTENDS Integers, Sequences, FiniteSets, TLC

\* ------------------------------------------------------------------------
\* Bounds of the model
\* ------------------------------------------------------------------------
MaxProc == 2        \* process handles (run_target calls) of the tracker
MaxPid == 2         \* pid values the operating system hands out
MaxLoads == 2       \* load_project calls
MaxProjProc == 1    \* run_target calls that get through the orchestrator

Handles == 1..MaxProc
ProjHandles == 1..(IF MaxProjProc < MaxProc THEN MaxProjProc ELSE MaxProc)
Pids == 1..MaxPid
ProjPids == {p \in Pids : p <= MaxProjProc}
LoadCalls == 1..MaxLoads

NoHandle == 0       \* None: no handle
NoPid == 0          \* no pid yet
KeyErr == -1        \* the outcome "the lookup raised"
PreId == 0          \* the id of the target of a hand-written configuration
FirstId == 1        \* the first id uuid4 generates

PyNone == "<None>"              \* None, where a string is expected
NoRoot == [tag |-> "None"]      \* None, where a path is expected
NoConfig == [tag |-> "None"]    \* None, where a ProjectConfig is expected
NoFile == [tag |-> "absent"]    \* no file at a path
NoArgs == [tag |-> "None"]
NoResult == [tag |-> "not called"]  \* no call was made yet
Free == [task |-> "none", h |-> 0]  \* the lock is not held

VARIABLES
  pc,           \* pc[h]: position of the run_target call owning handle h
  hpid,         \* hpid[h]: IRunningProcess.pid of handle h
  hargs,        \* hargs[h]: the arguments ShellCapability.execute got
  life,         \* life[h]: the child process: "none", "running", "exited"
  closeCb,      \* closeCb[h]: which _on_close the close notification invoked
  killed,       \* killed[h]: kill() was invoked on handle h
  registry,     \* ExecutionService._running_processes: pid -> handle
  cpc,          \* position of the cancel_target call
  cpid,         \* its argument
  cproc,        \* its local variable `process`
  cres,         \* outcome of the last completed cancel_target call
  project_root, \* ProjectService._project_root
  config,       \* ProjectService._config
  files,        \* the storage: configuration path -> text
  load,         \* load[c]: the load_project call c: position and locals
  nextId,       \* the next identifier uuid4 generates
  discRet,      \* discRet[r]: the config the last discovering load of r returned
  prun,         \* outcome of the last ProjectService.run_target call
  lastRet,      \* what the last load_project call that returned has returned
  gres,         \* what the last get_config call returned
  tree,         \* tree[r]: what find_files and read_file give below root r
  hashseed,     \* the hash seed of the interpreter process
  dn,           \* number of discover_targets calls made directly
  dout,         \* outcome of the last of them
  dprev,        \* outcome of the one before
  lock,         \* ExecutionService._lock: the task that holds it
  snap,         \* the get_running_processes call and the list it returned
  view          \* the calls the view has received from the presenter

execVars == <<pc, hpid, hargs, life, closeCb, killed, registry>>
cancelVars == <<cpc, cpid, cproc, cres>>
loadVars == <<project_root, config, files, load, nextId, discRet, lastRet>>
scanVars == <<tree, hashseed, dn, dout, dprev>>
sideVars == <<lock, snap, view>>
orchVars == <<project_root, config, files, load, nextId, discRet, lastRet,
              prun, gres, tree, hashseed, dn, dout, dprev>>
projVars == <<project_root, config, files, load, nextId, discRet, lastRet,
              prun, gres, tree, hashseed, dn, dout, dprev, lock, snap, view>>
vars == <<pc, hpid, hargs, life, closeCb, killed, registry, cpc, cpid, cproc,
          cres, project_root, config, files, load, nextId, discRet, prun,
          lastRet, gres, tree, hashseed, dn, dout, dprev, lock, snap, view>>

\* ------------------------------------------------------------------------
\* Paths (os.path)
\* ------------------------------------------------------------------------
Path(abs, parts) == [abs |-> abs, parts |-> parts]

\* os.path.join(root, name) for a name without "/"
path_join(root, name) == Path(root.abs, Append(root.parts, name))

\* os.path.basename(path)
basename(p) == IF p.parts = <<>> THEN "" ELSE p.parts[Len(p.parts)]

\* bool(path): None and "" are false
TruthyPath(p) == IF p = NoRoot THEN FALSE ELSE p.abs \/ p.parts # <<>>

\* bool(s) of an optional string
TruthyStr(s) == s # PyNone /\ s # ""

EmptyRoot == Path(FALSE, <<>>)                  \* ""
RootA == Path(TRUE, <<"work", "alpha">>)        \* "/work/alpha"
Roots == {EmptyRoot, RootA}

CONFIG_FILE_NAME == ".project-dashboard.yml"
config_path(root) == path_join(root, CONFIG_FILE_NAME)

\* ------------------------------------------------------------------------
\* Data model (models.py) and the serializer (adapters.py)
\* ------------------------------------------------------------------------

\* Target(name=, command=, source_file=): id from uuid4, notes and group_id None
Target(name, command, source_file, id) ==
  [kind |-> "Target", id |-> id, name |-> name, command |-> command,
   source_file |-> source_file, notes |-> PyNone, group_id |-> PyNone]

ConfigFields == {"project_name", "targets", "groups", "version", "shell"}

ConfigDefaults ==
  [project_name |-> PyNone, targets |-> <<>>, groups |-> <<>>,
   version |-> "1.0", shell |-> PyNone]

\* ProjectConfig(project_name=, targets=)
ProjectConfig(name, targets) ==
  [ConfigDefaults EXCEPT !.project_name = name, !.targets = targets]

\* dataclasses.asdict: every dataclass instance below becomes a dict
asdict(cfg) ==
  [cfg EXCEPT !.targets =
     [i \in 1..Len(cfg.targets) |-> [cfg.targets[i] EXCEPT !.kind = "dict"]]]

\* YamlConfigSerializer.serialize: yaml.dump(asdict(config))
serialize(cfg) == [tag |-> "yaml", mapping |-> TRUE, data |-> asdict(cfg)]

\* YamlConfigSerializer.deserialize: yaml.safe_load(data)
deserialize(text) == [mapping |-> text.mapping, data |-> text.data]

\* ProjectConfig(**config_data) raises unless config_data is a mapping that
\* has project_name and only keys that are fields
ConstructOK(d) ==
  /\ d.mapping
  /\ "project_name" \in DOMAIN d.data
  /\ DOMAIN d.data \subseteq ConfigFields

\* ProjectConfig(**config_data): the values are taken as they are
ProjectConfigFromData(d) ==
  [f \in ConfigFields |->
     IF f \in DOMAIN d.data THEN d.data[f] ELSE ConfigDefaults[f]]

\* ------------------------------------------------------------------------
\* StorageCapability (IFileSystemAdapter)
\* ------------------------------------------------------------------------
file_exists(fs, path) == fs[path] # NoFile
read_file(fs, path) == fs[path]
write_file(fs, path, text) == [fs EXCEPT ![path] = text]

ConfigPaths == {config_path(r) : r \in Roots}

\* root joined with the components rel
Under(root, rel) == Path(root.abs, root.parts \o rel)

\* An entry of the "scripts" mapping of a manifest
Script(key, text) == [key |-> key, text |-> text]
StartTest == <<Script("start", "node index.js"), Script("test", "jest")>>
TestStart == <<Script("test", "jest"), Script("start", "node index.js")>>
BuildOnly == <<Script("build", "tsc")>>

\* A package manifest as read_file and json.loads see it.  form: "ok" (a
\* mapping whose "scripts" is the mapping `scripts`, in its order),
\* "syntax" (no JSON), "nonmapping" (JSON, but a list, a string or null),
\* "noscripts" (a mapping without "scripts"), "badscripts" (a mapping whose
\* "scripts" is no mapping), "unreadable" (read_file raises)
Manifest(path, form, scripts) ==
  [path |-> path, form |-> form, scripts |-> scripts]

\* A line of a build-rule file: whether it starts with white space, its
\* first word, whether the word (after optional white space) is followed by
\* ":", and whether the line is a rule header
Line(indent, word, colon, rule) ==
  [indent |-> indent, word |-> word, colon |-> colon, rule |-> rule]

\* A build-rule file as read_file sees it
Makefile(path, readable, lines) ==
  [path |-> path, readable |-> readable, lines |-> lines]

\* What find_files gives below a root, with what read_file gives for each
\* file found: package_json for "**/package.json", makefiles[1] for
\* "**/Makefile", makefiles[2] for "**/makefile", shell_scripts for "**/*.sh",
\* python_scripts for "**/*.py"
TreeOf(pkg, mk, sh, py) ==
  [package_json |-> pkg, makefiles |-> mk, shell_scripts |-> sh,
   python_scripts |-> py]

\* The trees of the session: RootA holds a package.json with the scripts
\* start and test, the current directory a Makefile with the rule build.
Tree(root) ==
  IF root = RootA
    THEN TreeOf(<<Manifest(path_join(RootA, "package.json"), "ok",
                           StartTest)>>,
                <<<<>>, <<>>>>, <<>>, <<>>)
    ELSE TreeOf(<<>>,
                <<<<Makefile(path_join(root, "Makefile"), TRUE,
                             <<Line(FALSE, "build", TRUE, TRUE)>>)>>, <<>>>>,
                <<>>, <<>>)

\* A configuration file written before the session: one target, a shell override
PreDoc(root) ==
  [tag |-> "yaml", mapping |-> TRUE,
   data |-> [project_name |-> "Existing",
             targets |-> <<[kind |-> "dict", id |-> PreId, name |-> "lint",
                            command |-> "npm run lint",
                            source_file |-> path_join(root, "package.json"),
                            notes |-> PyNone, group_id |-> PyNone]>>,
             groups |-> <<>>, version |-> "1.0", shell |-> "/bin/bash"]]

\* An empty configuration file: yaml.safe_load gives None
EmptyDoc == [tag |-> "yaml", mapping |-> FALSE, data |-> <<>>]

\* ------------------------------------------------------------------------
\* DiscoveryService
\* ------------------------------------------------------------------------
RECURSIVE ConcatAll(_)
ConcatAll(ss) == IF ss = <<>> THEN <<>> ELSE Head(ss) \o ConcatAll(Tail(ss))

\* What the body of the try does for one manifest: read_file, json.loads,
\* data.get("scripts", {}), scripts.items().  Only JSONDecodeError and
\* KeyError are caught.
ManifestOutcome(f) ==
  CASE f.form = "unreadable" -> "OSError"
    [] f.form = "syntax" -> "skip"
    [] f.form = "nonmapping" -> "AttributeError"
    [] f.form = "noscripts" -> "empty"
    [] f.form = "badscripts" -> "AttributeError"
    [] OTHER -> "ok"

Raising == {"OSError", "AttributeError"}

\* for name, command in scripts.items(): command=f"npm run {name}"
NpmCommand(name, text) == "npm run " \o name

\* one (name, command, source_file) per script key of each manifest, in the
\* order of find_files; the first manifest that raises ends the scan
discover_from_package_json(tr) ==
  LET fs == tr.package_json
      bad == {i \in 1..Len(fs) : ManifestOutcome(fs[i]) \in Raising}
      first == CHOOSE i \in bad : \A j \in bad : i <= j
  IN IF bad # {}
       THEN [err |-> ManifestOutcome(fs[first]), found |-> <<>>]
       ELSE [err |-> "none",
             found |-> ConcatAll([i \in 1..Len(fs) |->
               IF ManifestOutcome(fs[i]) = "ok"
                 THEN [k \in 1..Len(fs[i].scripts) |->
                         [name |-> fs[i].scripts[k].key,
                          command |-> NpmCommand(fs[i].scripts[k].key,
                                                 fs[i].scripts[k].text),
                          source_file |-> fs[i].path]]
                 ELSE <<>>])]

\* the elements of s, each kept at its first occurrence
RECURSIVE Dedup(_)
Dedup(s) ==
  IF s = <<>> THEN <<>>
  ELSE LET d == Dedup(SubSeq(s, 1, Len(s) - 1))
           x == s[Len(s)]
       IN IF \E i \in 1..Len(d) : d[i].path = x.path THEN d ELSE Append(d, x)

Reverse(s) == [i \in 1..Len(s) |-> s[Len(s) + 1 - i]]

\* list(set(makefile_files)): the distinct paths, in the order in which the
\* set iterates, which the hash seed of the interpreter process decides
Seeds == {0, 1}
SetOrder(s, seed) == IF seed = 0 THEN Dedup(s) ELSE Reverse(Dedup(s))

\* The words of the lines: those that consist of [a-zA-Z0-9_-] only, those
\* that start with ".", those in which no letter is lower case
IdentWords == {"build", "test", "all", "CC"}
DotWords == {".PHONY", ".DEFAULT", ".o"}
UpperWords == {".PHONY", ".DEFAULT", "CC"}

\* re.compile(r'^([a-zA-Z0-9_-]+)\s*:', re.MULTILINE) matches at the line
MatchLine_AnyWord(l) == ~l.indent /\ l.colon
MatchLine(l) == ~l.indent /\ l.word \in IdentWords /\ l.colon

\* target_name.startswith('.') and target_name.upper() == target_name
Directive(w) == w \in DotWords /\ w \in UpperWords

\* the targets of one build-rule file; one that cannot be read gives none
MakefileTargets(f) ==
  LET keep(l) == MatchLine(l) /\ ~Directive(l.word)
      ls == IF f.readable THEN SelectSeq(f.lines, keep) ELSE <<>>
  IN [k \in 1..Len(ls) |->
        [name |-> ls[k].word, command |-> "make " \o ls[k].word,
         source_file |-> f.path]]

\* one per matching line of each build-rule file
discover_from_makefiles(tr, seed) ==
  LET fs == SetOrder(tr.makefiles[1] \o tr.makefiles[2], seed)
  IN [err |-> "none",
      found |-> ConcatAll([i \in 1..Len(fs) |-> MakefileTargets(fs[i])])]

\* the text of a path
RECURSIVE JoinParts(_)
JoinParts(parts) ==
  IF parts = <<>> THEN ""
  ELSE IF Len(parts) = 1 THEN parts[1]
  ELSE parts[1] \o "/" \o JoinParts(Tail(parts))
PathStr(p) == (IF p.abs THEN "/" ELSE "") \o JoinParts(p.parts)

\* '/<dir>/' in script_path
InDir_Never(p, dir) == FALSE
InDir(p, dir) ==
  \E i \in 1..(Len(p.parts) - 1) : p.parts[i] = dir /\ (i > 1 \/ p.abs)

excluded_patterns == {"setup.py", "__init__.py", "conftest.py"}

\* every .sh file, then every .py file that is not excluded by its name or
\* by a directory of its path
discover_from_scripts(tr) ==
  LET sh == tr.shell_scripts
      kept(q) == /\ basename(q) \notin excluded_patterns
                 /\ ~InDir(q, "src") /\ ~InDir(q, "tests")
                 /\ ~InDir(q, "__pycache__")
      py == SelectSeq(tr.python_scripts, kept)
  IN [err |-> "none",
      found |->
        [i \in 1..Len(sh) |->
           [name |-> basename(sh[i]), command |-> "bash " \o PathStr(sh[i]),
            source_file |-> sh[i]]]
        \o
        [i \in 1..Len(py) |->
           [name |-> basename(py[i]), command |-> "python " \o PathStr(py[i]),
            source_file |-> py[i]]]]

\* all_targets = package_json_targets + makefile_targets + script_targets
Combine_MakeFirst(pkg, mk, sc) == mk \o pkg \o sc
Combine(pkg, mk, sc) == pkg \o mk \o sc

\* discover_targets: the three scans in turn, each Target getting the next
\* uuid4 in the order of construction; an exception of a scan leaves it
discover_targets(tr, firstId, seed) ==
  LET pkg == discover_from_package_json(tr)
      mk == discover_from_makefiles(tr, seed)
      sc == discover_from_scripts(tr)
      found == Combine(pkg.found, mk.found, sc.found)
  IN IF pkg.err # "none"
       THEN [err |-> pkg.err, targets |-> <<>>]
       ELSE [err |-> "none",
             targets |-> [i \in 1..Len(found) |->
               Target(found[i].name, found[i].command, found[i].source_file,
                      firstId + i - 1)]]

\* ------------------------------------------------------------------------
\* ExecutionService: the registry operations (each runs under self._lock)
\* ------------------------------------------------------------------------

\* self._running_processes[process.pid] = process
RegisterHandle_Skip(reg, p, h) == reg
RegisterHandle(reg, p, h) == [reg EXCEPT ![p] = h]

\* on_close: if pid_to_remove in self._running_processes: del ...
on_close_Keep(reg, p) == reg
on_close(reg, p) ==
  IF reg[p] # NoHandle THEN [reg EXCEPT ![p] = NoHandle] ELSE reg

\* del self._running_processes[pid] raises KeyError when the pid is absent
del_raises(reg, p) == reg[p] = NoHandle

\* on_close raises when its del does; the del runs only under
\* `if pid_to_remove in self._running_processes`
on_close_raises_Unguarded(reg, p) == del_raises(reg, p)
on_close_raises(reg, p) == reg[p] # NoHandle /\ del_raises(reg, p)

\* self._running_processes.get(pid)
LookupHandle_Index(reg, p) == IF reg[p] # NoHandle THEN reg[p] ELSE KeyErr
LookupHandle(reg, p) == reg[p]

\* list(self._running_processes.keys()), as the set of its elements
RunningPids(reg) == {p \in Pids : reg[p] # NoHandle}
get_running_processes == RunningPids(registry)

\* A list object: each pid a number of times.  list(...) makes a new list
\* ("copy"); an object that shares the storage of the dict is an "alias".
KeyCount(reg) == [p \in Pids |-> IF reg[p] # NoHandle THEN 1 ELSE 0]
KeyList_Alias(reg) == [obj |-> "alias", val |-> [p \in Pids |-> 0]]
KeyList(reg) == [obj |-> "copy", val |-> KeyCount(reg)]

\* what the holder of a returned list finds in it
Contents(s, reg) == IF s.obj = "alias" THEN KeyCount(reg) ELSE s.val

\* the pids of the processes that have been spawned and not yet reaped
LivePids == {hpid[h] : h \in {g \in Handles : life[g] = "running"}}

\* the run_target calls to which execute has returned a handle
Started == {h \in Handles : pc[h] \notin {"idle", "raised"}}

\* The arguments of a run_target call made on the tracker directly
DirectArgs == [command |-> "sleep 10", cwd |-> RootA, shell |-> "/bin/sh"]

\* The same call with a shell that is no file of the host
BadShellArgs == [command |-> "sleep 10", cwd |-> RootA, shell |-> "/opt/none/sh"]
DirectArgsSet == {DirectArgs, BadShellArgs}

\* asyncio.create_subprocess_shell(command, cwd=working_dir, executable=shell)
\* spawns the child when the executable and the directory exist, and raises
\* FileNotFoundError (an OSError) otherwise
HostShells == {"/bin/sh", "/bin/bash"}
HostDirs == Roots
SpawnOK(a) == a.shell \in HostShells /\ a.cwd \in HostDirs

\* ------------------------------------------------------------------------
\* Initial state: ExecutionService.__init__, ProjectService.__init__
\* ------------------------------------------------------------------------
InitExec ==
  /\ pc = [h \in Handles |-> "idle"]
  /\ hpid = [h \in Handles |-> NoPid]
  /\ hargs = [h \in Handles |-> NoArgs]
  /\ life = [h \in Handles |-> "none"]
  /\ closeCb = [h \in Handles |-> "none"]
  /\ killed = [h \in Handles |-> FALSE]
  /\ registry = [p \in Pids |-> NoHandle]
  /\ cpc = "idle"
  /\ cpid = NoPid
  /\ cproc = NoHandle
  /\ cres = "none"

\* no get_running_processes call was made; a list holds each pid a number
\* of times
NoSnapshot == [pc |-> "idle", obj |-> "none", val |-> [p \in Pids |-> 0]]

\* the view has received no call
\* (set_project_name, set_status, show_error, update_target_list), and no
\* call of the presenter has ended
NoCalls ==
  [names |-> <<>>, statuses |-> <<>>, errors |-> <<>>, lists |-> <<>>,
   rets |-> <<>>]

IdleLoad ==
  [pc |-> "idle", root |-> NoRoot, cfg |-> NoConfig, disc |-> <<>>,
   saved |-> NoConfig, ndisc |-> 0, nsave |-> 0, how |-> "none",
   seen |-> NoConfig]

InitSession ==
  /\ project_root = NoRoot
  /\ config = NoConfig
  /\ load = [c \in LoadCalls |-> IdleLoad]
  /\ nextId = FirstId
  /\ discRet = [r \in Roots |-> NoConfig]
  /\ prun = [kind |-> "none"]
  /\ lastRet = NoConfig
  /\ gres = NoResult
  /\ dn = 0
  /\ dout = NoResult
  /\ dprev = NoResult
  /\ lock = Free
  /\ snap = NoSnapshot
  /\ view = NoCalls

\* ------------------------------------------------------------------------
\* ExecutionService.run_target
\* ------------------------------------------------------------------------

\* process = await self._shell_adapter.execute(target.command, project_root,
\* shell): the child is spawned under a pid no live process has, and the
\* handle is returned.
Execute(h, p, a) ==
  /\ pc[h] = "idle"
  /\ SpawnOK(a)
  /\ \A g \in Handles : g < h => pc[g] # "idle"
  /\ p \notin LivePids
  /\ pc' = [pc EXCEPT ![h] = "executed"]
  /\ hpid' = [hpid EXCEPT ![h] = p]
  /\ hargs' = [hargs EXCEPT ![h] = a]
  /\ life' = [life EXCEPT ![h] = "running"]
  /\ UNCHANGED <<closeCb, killed, registry>>

\* await self._shell_adapter.execute(...) raises: the exception leaves
\* run_target, no handle exists and nothing is registered
ExecuteRaise(h, a) ==
  /\ pc[h] = "idle"
  /\ \A g \in Handles : g < h => pc[g] # "idle"
  /\ ~SpawnOK(a)
  /\ pc' = [pc EXCEPT ![h] = "raised"]
  /\ hargs' = [hargs EXCEPT ![h] = a]
  /\ UNCHANGED <<hpid, life, closeCb, killed, registry>>

\* with self._lock: self._running_processes[process.pid] = process
Register(h) ==
  /\ pc[h] = "executed"
  /\ registry' = RegisterHandle(registry, hpid[h], h)
  /\ pc' = [pc EXCEPT ![h] = "registered"]
  /\ UNCHANGED <<hpid, hargs, life, closeCb, killed>>

\* process.set_on_close(lambda code: on_close(process.pid)); return process.pid
InstallAndReturn(h) ==
  /\ pc[h] = "registered"
  /\ pc' = [pc EXCEPT ![h] = "returned"]
  /\ UNCHANGED <<hpid, hargs, life, closeCb, killed, registry>>

\* The callback a handle holds: set_on_close has run exactly when the
\* run_target call has returned; before, it is `lambda code: None`.
Installed(h) == pc[h] = "returned"

\* ------------------------------------------------------------------------
\* The shell capability: exit of the child, and the close notification
\* ------------------------------------------------------------------------

\* The child exits and is reaped (process.wait() returns): its pid is free.
Exit(h) ==
  /\ life[h] = "running"
  /\ life' = [life EXCEPT ![h] = "exited"]
  /\ UNCHANGED <<pc, hpid, hargs, closeCb, killed, registry>>

\* running_process._on_close(exit_code): the callback installed at that
\* moment runs; the one run_target installs calls on_close(process.pid).
Close(h) ==
  /\ life[h] = "exited"
  /\ closeCb[h] = "none"
  /\ IF Installed(h)
       THEN /\ registry' = on_close(registry, hpid[h])
            /\ closeCb' = [closeCb EXCEPT ![h] = "on_close"]
       ELSE /\ registry' = registry
            /\ closeCb' = [closeCb EXCEPT ![h] = "default"]
  /\ UNCHANGED <<pc, hpid, hargs, life, killed>>

\* ------------------------------------------------------------------------
\* ExecutionService.cancel_target
\* ------------------------------------------------------------------------

\* with self._lock: process = self._running_processes.get(pid)
CancelLookup(p) ==
  /\ cpc = "idle"
  /\ LET r == LookupHandle(registry, p)
     IN IF r = KeyErr
          THEN /\ cpc' = "idle"
               /\ cpid' = NoPid
               /\ cproc' = NoHandle
               /\ cres' = "raised"
          ELSE /\ cpc' = "looked"
               /\ cpid' = p
               /\ cproc' = r
               /\ cres' = "none"
  /\ UNCHANGED execVars

\* if process: process.kill()
KillTarget_None(proc) == {}
KillTarget(proc) == IF proc # NoHandle THEN {proc} ELSE {}

CancelKill ==
  /\ cpc = "looked"
  /\ killed' = [h \in Handles |-> killed[h] \/ h \in KillTarget(cproc)]
  /\ cpc' = "idle"
  /\ cpid' = NoPid
  /\ cproc' = NoHandle
  /\ cres' = IF cproc # NoHandle THEN "killed" ELSE "noop"
  /\ UNCHANGED <<pc, hpid, hargs, life, closeCb, registry>>

\* ------------------------------------------------------------------------
\* The tracker with self._lock explicit: a `with self._lock:` block is two
\* steps, the acquisition (which waits until the lock is free) and the body
\* with the release.  The tasks are the run_target calls, the close
\* callbacks, the cancel_target call and the get_running_processes call.
\* ------------------------------------------------------------------------
RunTask(h) == [task |-> "run", h |-> h]
CloseTask(h) == [task |-> "close", h |-> h]
CancelTask == [task |-> "cancel", h |-> 0]
SnapTask == [task |-> "snap", h |-> 0]

\* threading.Lock.acquire() returns only when no task holds the lock
CanAcquire_Always(l) == TRUE
CanAcquire(l) == l = Free

\* run_target: with self._lock:
RegisterEnter(h) ==
  /\ pc[h] = "executed"
  /\ CanAcquire(lock)
  /\ lock' = RunTask(h)
  /\ pc' = [pc EXCEPT ![h] = "locked"]
  /\ UNCHANGED <<hpid, hargs, life, closeCb, killed, registry>>

\* self._running_processes[process.pid] = process, and the block ends
RegisterLeave(h) ==
  /\ pc[h] = "locked"
  /\ registry' = RegisterHandle(registry, hpid[h], h)
  /\ lock' = Free
  /\ pc' = [pc EXCEPT ![h] = "registered"]
  /\ UNCHANGED <<hpid, hargs, life, closeCb, killed>>

\* running_process._on_close(exit_code) with the callback of run_target
\* installed: on_close(process.pid) enters its with-block
CloseEnter(h) ==
  /\ life[h] = "exited"
  /\ closeCb[h] = "none"
  /\ Installed(h)
  /\ CanAcquire(lock)
  /\ lock' = CloseTask(h)
  /\ closeCb' = [closeCb EXCEPT ![h] = "entered"]
  /\ UNCHANGED <<pc, hpid, hargs, life, killed, registry>>

\* if pid_to_remove in self._running_processes: del ..., and the block ends
CloseLeave(h) ==
  /\ closeCb[h] = "entered"
  /\ IF on_close_raises(registry, hpid[h])
       THEN /\ registry' = registry
            /\ closeCb' = [closeCb EXCEPT ![h] = "raised"]
       ELSE /\ registry' = on_close(registry, hpid[h])
            /\ closeCb' = [closeCb EXCEPT ![h] = "on_close"]
  /\ lock' = Free
  /\ UNCHANGED <<pc, hpid, hargs, life, killed>>

\* running_process._on_close(exit_code) before set_on_close has run: the
\* callback is `lambda code: None`
CloseDefault(h) ==
  /\ life[h] = "exited"
  /\ closeCb[h] = "none"
  /\ ~Installed(h)
  /\ closeCb' = [closeCb EXCEPT ![h] = "default"]
  /\ UNCHANGED <<pc, hpid, hargs, life, killed, registry, lock>>

\* _manage_process: an exception of the stream readers or of wait() is
\* passed to running_process._on_error, which is `lambda err: None` since
\* run_target installs none; _on_close is not called then
ErrorNotify(h) ==
  /\ life[h] # "none"
  /\ closeCb[h] = "none"
  /\ closeCb' = [closeCb EXCEPT ![h] = "error"]
  /\ UNCHANGED <<pc, hpid, hargs, life, killed, registry, lock>>

\* cancel_target(p) is called
CancelCall(p) ==
  /\ cpc = "idle"
  /\ cpc' = "called"
  /\ cpid' = p
  /\ UNCHANGED <<cproc, cres, execVars, lock>>

\* with self._lock:
CancelEnter ==
  /\ cpc = "called"
  /\ CanAcquire(lock)
  /\ lock' = CancelTask
  /\ cpc' = "locked"
  /\ UNCHANGED <<cpid, cproc, cres, execVars>>

\* the holder of the lock when the lookup is done: the with-block ends
\* before `if process: process.kill()`
CancelBlockEnd_AfterKill == CancelTask
CancelBlockEnd == Free

\* process = self._running_processes.get(pid), and the block ends
CancelLeave ==
  /\ cpc = "locked"
  /\ cproc' = LookupHandle(registry, cpid)
  /\ lock' = CancelBlockEnd
  /\ cpc' = "looked"
  /\ UNCHANGED <<cpid, cres, execVars>>

\* get_running_processes(): with self._lock:
SnapEnter ==
  /\ snap.pc = "idle"
  /\ CanAcquire(lock)
  /\ lock' = SnapTask
  /\ snap' = [snap EXCEPT !.pc = "locked"]
  /\ UNCHANGED <<execVars, cancelVars>>

\* return list(self._running_processes.keys())
SnapLeave ==
  /\ snap.pc = "locked"
  /\ snap' = [pc |-> "idle", obj |-> KeyList(registry).obj,
              val |-> KeyList(registry).val]
  /\ lock' = Free
  /\ UNCHANGED <<execVars, cancelVars>>

\* the caller changes the list it got: removes p if it is in it, appends
\* it otherwise; an object that shares the storage of the dict changes the
\* dict
SnapMutate(p) ==
  /\ snap.pc = "idle"
  /\ snap.obj # "none"
  /\ IF snap.obj = "copy"
       THEN /\ snap' = [snap EXCEPT !.val[p] = 1 - @]
            /\ registry' = registry
       ELSE /\ snap' = snap
            /\ registry' = [registry EXCEPT ![p] = NoHandle]
  /\ UNCHANGED <<pc, hpid, hargs, life, closeCb, killed, lock, cancelVars>>

\* A handle whose kill() delivers the close notification on the calling
\* thread, as MockRunningProcess.kill does: kill_called is set and, if a
\* close callback is installed, it is called before kill returns
CancelKillSync ==
  /\ cpc = "looked"
  /\ cproc # NoHandle
  /\ Installed(cproc)
  /\ closeCb[cproc] \in {"none", "on_close"}
  /\ killed' = [killed EXCEPT ![cproc] = TRUE]
  /\ cpc' = "in_kill"
  /\ UNCHANGED <<pc, hpid, hargs, life, closeCb, registry, lock, cpid, cproc,
                 cres>>

\* the callback, inside kill: on_close(process.pid) enters its with-block
SyncCloseEnter ==
  /\ cpc = "in_kill"
  /\ CanAcquire(lock)
  /\ lock' = CancelTask
  /\ cpc' = "kill_locked"
  /\ UNCHANGED <<execVars, cpid, cproc, cres>>

\* the body of on_close; the block ends, the callback, kill and
\* cancel_target return
SyncCloseLeave ==
  /\ cpc = "kill_locked"
  /\ IF on_close_raises(registry, hpid[cproc])
       THEN /\ registry' = registry
            /\ closeCb' = [closeCb EXCEPT ![cproc] = "raised"]
            /\ cres' = "raised"
       ELSE /\ registry' = on_close(registry, hpid[cproc])
            /\ closeCb' = [closeCb EXCEPT ![cproc] =
                 IF @ = "on_close" THEN "on_close_twice" ELSE "on_close"]
            /\ cres' = "killed"
  /\ lock' = Free
  /\ cpc' = "idle"
  /\ cpid' = NoPid
  /\ cproc' = NoHandle
  /\ UNCHANGED <<pc, hpid, hargs, life, killed>>

\* ------------------------------------------------------------------------
\* ProjectService.load_project, with ConfigurationService.load_config and
\* save_config inlined; a step runs from one suspension point to the next
\* ------------------------------------------------------------------------

\* self._project_root = project_root; load_config calls file_exists
LoadStart(c, r) ==
  /\ load[c].pc = "idle"
  /\ \A d \in LoadCalls : d < c => load[d].pc # "idle"
  /\ project_root' = r
  /\ load' = [load EXCEPT ![c] =
       [@ EXCEPT !.pc = "exists", !.root = r, !.seen = discRet[r]]]
  /\ UNCHANGED <<config, files, nextId, discRet, lastRet>>

\* file_exists answers: load_config returns None and discover_targets is
\* called, or read_file is called
LoadExists_Never(fs, path) == FALSE
LoadExists_Found(fs, path) == file_exists(fs, path)

LoadExists(c) ==
  /\ load[c].pc = "exists"
  /\ IF LoadExists_Found(files, config_path(load[c].root))
       THEN load' = [load EXCEPT ![c] = [@ EXCEPT !.pc = "read"]]
       ELSE load' = [load EXCEPT ![c] =
              [@ EXCEPT !.pc = "discover", !.ndisc = @ + 1]]
  /\ UNCHANGED <<project_root, config, files, nextId, discRet, lastRet>>

\* read_file answers: deserialize, ProjectConfig(**config_data),
\* self._config = config, return self._config
LoadRead(c) ==
  /\ load[c].pc = "read"
  /\ LET d == deserialize(read_file(files, config_path(load[c].root)))
     IN IF ConstructOK(d)
          THEN /\ config' = ProjectConfigFromData(d)
               /\ lastRet' = ProjectConfigFromData(d)
               /\ load' = [load EXCEPT ![c] =
                    [@ EXCEPT !.pc = "done", !.how = "loaded",
                              !.cfg = ProjectConfigFromData(d)]]
          ELSE /\ config' = config
               /\ lastRet' = lastRet
               /\ load' = [load EXCEPT ![c] = [@ EXCEPT !.pc = "raised"]]
  /\ UNCHANGED <<project_root, files, nextId, discRet>>

\* discover_targets answers: new_config is built, save_config is called
NewConfig(root, discovered) == ProjectConfig(basename(root), discovered)

LoadDiscover(c) ==
  /\ load[c].pc = "discover"
  /\ LET out == discover_targets(tree[load[c].root], nextId, hashseed)
         found == out.targets
     IN IF out.err = "none"
          THEN /\ nextId' = nextId + Len(found)
               /\ load' = [load EXCEPT ![c] =
                    [@ EXCEPT !.pc = "save", !.disc = found,
                              !.cfg = NewConfig(load[c].root, found),
                              !.saved = NewConfig(load[c].root, found),
                              !.nsave = @ + 1]]
          ELSE /\ nextId' = nextId
               /\ load' = [load EXCEPT ![c] = [@ EXCEPT !.pc = "raised"]]
  /\ UNCHANGED <<project_root, config, files, discRet, lastRet>>

\* write_file answers: self._config = new_config, return self._config
SavePath_Cwd(root) == path_join(EmptyRoot, CONFIG_FILE_NAME)
SavePath(root) == path_join(root, CONFIG_FILE_NAME)

LoadSave(c) ==
  /\ load[c].pc = "save"
  /\ files' = write_file(files, SavePath(load[c].root),
                         serialize(load[c].saved))
  /\ config' = load[c].cfg
  /\ load' = [load EXCEPT ![c] = [@ EXCEPT !.pc = "done", !.how = "discovered"]]
  /\ discRet' = [discRet EXCEPT ![load[c].root] = load[c].cfg]
  /\ lastRet' = load[c].cfg
  /\ UNCHANGED <<project_root, nextId>>

\* ------------------------------------------------------------------------
\* ProjectService.run_target
\* ------------------------------------------------------------------------

\* AsyncioShellAdapter.get_system_shell, on a host without $SHELL
get_system_shell == "/bin/sh"

\* if not self._config or not self._project_root
NotLoaded(cfg, root) == cfg = NoConfig \/ ~TruthyPath(root)

\* next((t for t in targets if t.id == target_id), None): the position of the
\* first element on which the scan stops: a match, or a dict, on which t.id
\* raises AttributeError; 0 when the scan runs to the end
ScanStop(ts, tid) ==
  LET stops == {i \in 1..Len(ts) : ts[i].kind = "dict" \/ ts[i].id = tid}
  IN IF stops = {} THEN 0 ELSE CHOOSE i \in stops : \A j \in stops : i <= j

\* what a call of run_target(target_id) does up to the delegation
RunTargetOutcome(cfg, root, tid) ==
  IF NotLoaded(cfg, root)
    THEN [kind |-> "not_loaded", tid |-> tid]
    ELSE LET i == ScanStop(cfg.targets, tid)
         IN IF i = 0
              THEN [kind |-> "not_found", tid |-> tid]
              ELSE IF cfg.targets[i].kind = "dict"
                     THEN [kind |-> "AttributeError", tid |-> tid]
                     ELSE [kind |-> "run", tid |-> tid,
                           target |-> cfg.targets[i],
                           cwd |-> root,
                           shell |-> IF TruthyStr(cfg.shell)
                                       THEN cfg.shell
                                       ELSE get_system_shell]

PRunTarget(tid, h, p) ==
  LET out == RunTargetOutcome(config, project_root, tid)
      args == [command |-> out.target.command, cwd |-> out.cwd,
               shell |-> out.shell]
  IN IF out.kind = "run"
       THEN IF SpawnOK(args)
              THEN /\ Execute(h, p, args)
                   /\ prun' = [kind |-> "run", tid |-> tid,
                               target |-> out.target, cwd |-> out.cwd,
                               shell |-> out.shell, h |-> h]
              ELSE /\ ExecuteRaise(h, args)
                   /\ prun' = [kind |-> "OSError", tid |-> tid]
       ELSE /\ prun' = out
            /\ UNCHANGED execVars

\* ------------------------------------------------------------------------
\* ProjectService.cancel_target and get_config
\* ------------------------------------------------------------------------

\* self._execution_service.cancel_target(pid): the call enters the tracker's
\* cancel_target, whose second step is CancelKill
PCancelTarget_Unload(p) ==
  CancelLookup(p) /\ project_root' = NoRoot /\ config' = NoConfig
PCancelTarget(p) ==
  CancelLookup(p) /\ project_root' = project_root /\ config' = config

\* return self._config
get_config_Early ==
  IF \E c \in LoadCalls : load[c].pc = "save"
    THEN load[CHOOSE c \in LoadCalls : load[c].pc = "save"].cfg
    ELSE config
get_config == config

GetConfig ==
  /\ gres' = get_config
  /\ UNCHANGED <<execVars, cancelVars, loadVars, prun, scanVars, sideVars>>

\* ------------------------------------------------------------------------
\* DiscoveryService.discover_targets called directly, and the restart of
\* the interpreter process
\* ------------------------------------------------------------------------
MaxScans == 2       \* discover_targets calls made directly

Discover(r) ==
  /\ dn < MaxScans
  /\ LET out == discover_targets(tree[r], nextId, hashseed)
     IN /\ dout' = [err |-> out.err, targets |-> out.targets,
                    seed |-> hashseed]
        /\ nextId' = nextId + Len(out.targets)
  /\ dprev' = dout
  /\ dn' = dn + 1
  /\ UNCHANGED <<execVars, cancelVars, project_root, config, files, load,
                 discRet, lastRet, prun, gres, tree, hashseed, sideVars>>

\* The process ends and a new one starts, with its own hash seed: the
\* session starts empty, the storage is what it was
Restart ==
  /\ \A c \in LoadCalls : load[c].pc \in {"idle", "done", "raised"}
  /\ \A h \in Handles : pc[h] = "idle"
  /\ hashseed' \in Seeds \ {hashseed}
  /\ project_root' = NoRoot
  /\ config' = NoConfig
  /\ lastRet' = NoConfig
  /\ UNCHANGED <<execVars, cancelVars, files, load, nextId, discRet, prun,
                 gres, tree, dn, dout, dprev, sideVars>>

\* ------------------------------------------------------------------------
\* Specifications
\* ------------------------------------------------------------------------

\* The tracker, called directly; no project is loaded
Init ==
  /\ InitExec
  /\ InitSession
  /\ files = [q \in ConfigPaths |-> NoFile]
  /\ tree = [r \in Roots |-> Tree(r)]
  /\ hashseed = 0

Next ==
  \/ \E h \in Handles, p \in Pids, a \in DirectArgsSet :
       Execute(h, p, a) /\ UNCHANGED cancelVars /\ UNCHANGED projVars
  \/ \E h \in Handles, a \in DirectArgsSet :
       ExecuteRaise(h, a) /\ UNCHANGED cancelVars /\ UNCHANGED projVars
  \/ \E h \in Handles : Register(h) /\ UNCHANGED cancelVars /\ UNCHANGED projVars
  \/ \E h \in Handles :
       InstallAndReturn(h) /\ UNCHANGED cancelVars /\ UNCHANGED projVars
  \/ \E h \in Handles : Exit(h) /\ UNCHANGED cancelVars /\ UNCHANGED projVars
  \/ \E h \in Handles : Close(h) /\ UNCHANGED cancelVars /\ UNCHANGED projVars
  \/ \E p \in Pids : CancelLookup(p) /\ UNCHANGED projVars
  \/ CancelKill /\ UNCHANGED projVars

Spec == Init /\ [][Next]_vars

\* The tracker over a shell capability that, once kill() was invoked on a
\* handle, lets the child exit and delivers its close notification
KilledExit(h) ==
  killed[h] /\ Exit(h) /\ UNCHANGED cancelVars /\ UNCHANGED projVars
KilledClose(h) ==
  killed[h] /\ Close(h) /\ UNCHANGED cancelVars /\ UNCHANGED projVars

FairSpec ==
  /\ Init
  /\ [][Next]_vars
  /\ \A h \in Handles : WF_vars(KilledExit(h)) /\ WF_vars(KilledClose(h))

\* The tracker with the lock explicit, over the shell capability of
\* adapters.py (kill is terminate(); close and error come from the task
\* that manages the process)
NextCore ==
  \/ \E h \in Handles, p \in Pids :
       Execute(h, p, DirectArgs) /\ UNCHANGED <<cancelVars, orchVars, sideVars>>
  \/ \E h \in Handles :
       RegisterEnter(h) /\ UNCHANGED <<cancelVars, orchVars, snap, view>>
  \/ \E h \in Handles :
       RegisterLeave(h) /\ UNCHANGED <<cancelVars, orchVars, snap, view>>
  \/ \E h \in Handles :
       InstallAndReturn(h) /\ UNCHANGED <<cancelVars, orchVars, sideVars>>
  \/ \E h \in Handles : Exit(h) /\ UNCHANGED <<cancelVars, orchVars, sideVars>>
  \/ \E h \in Handles :
       CloseEnter(h) /\ UNCHANGED <<cancelVars, orchVars, snap, view>>
  \/ \E h \in Handles :
       CloseLeave(h) /\ UNCHANGED <<cancelVars, orchVars, snap, view>>
  \/ \E h \in Handles :
       CloseDefault(h) /\ UNCHANGED <<cancelVars, orchVars, snap, view>>
  \/ \E p \in Pids : CancelCall(p) /\ UNCHANGED <<orchVars, snap, view>>
  \/ CancelEnter /\ UNCHANGED <<orchVars, snap, view>>
  \/ CancelLeave /\ UNCHANGED <<orchVars, snap, view>>
  \/ CancelKill /\ UNCHANGED <<orchVars, sideVars>>
  \/ SnapEnter /\ UNCHANGED <<orchVars, view>>
  \/ SnapLeave /\ UNCHANGED <<orchVars, view>>

\* with the error notification, and a caller that changes the list it got
NextLock ==
  \/ NextCore
  \/ \E h \in Handles :
       ErrorNotify(h) /\ UNCHANGED <<cancelVars, orchVars, snap, view>>
  \/ \E p \in Pids : SnapMutate(p) /\ UNCHANGED <<orchVars, view>>

SpecLock == Init /\ [][NextLock]_vars

\* The same tracker over handles whose kill() may also deliver the close
\* notification synchronously
NextSync ==
  \/ NextCore
  \/ CancelKillSync /\ UNCHANGED <<orchVars, snap, view>>
  \/ SyncCloseEnter /\ UNCHANGED <<orchVars, snap, view>>
  \/ SyncCloseLeave /\ UNCHANGED <<orchVars, snap, view>>

SpecSync == Init /\ [][NextSync]_vars

\* Scheduling: a task inside a with-block leaves it; cancel_target, once
\* called, takes its next step, and gets the lock if the lock is free again
\* and again
FairSpecSync ==
  /\ Init
  /\ [][NextSync]_vars
  /\ \A h \in Handles :
       /\ WF_vars(RegisterLeave(h) /\ UNCHANGED <<cancelVars, orchVars, snap, view>>)
       /\ WF_vars(CloseLeave(h) /\ UNCHANGED <<cancelVars, orchVars, snap, view>>)
  /\ WF_vars(SnapLeave /\ UNCHANGED <<orchVars, view>>)
  /\ SF_vars(CancelEnter /\ UNCHANGED <<orchVars, snap, view>>)
  /\ WF_vars(CancelLeave /\ UNCHANGED <<orchVars, snap, view>>)
  /\ WF_vars(CancelKill /\ UNCHANGED <<orchVars, sideVars>>)
  /\ SF_vars(SyncCloseEnter /\ UNCHANGED <<orchVars, snap, view>>)
  /\ WF_vars(SyncCloseLeave /\ UNCHANGED <<orchVars, snap, view>>)

\* The orchestrator over the configuration store and the tracker
InitProject ==
  /\ InitExec
  /\ InitSession
  /\ files \in [ConfigPaths -> {NoFile, EmptyDoc} \cup {PreDoc(r) : r \in Roots}]
  /\ \A r \in Roots : files[config_path(r)] \in {NoFile, EmptyDoc, PreDoc(r)}
  /\ tree = [r \in Roots |-> Tree(r)]
  /\ hashseed = 0

\* what a step of load_project leaves alone
LoadFrame == UNCHANGED <<execVars, cancelVars, prun, gres, scanVars, sideVars>>

NextProject ==
  \/ \E c \in LoadCalls, r \in Roots : LoadStart(c, r) /\ LoadFrame
  \/ \E c \in LoadCalls : LoadExists(c) /\ LoadFrame
  \/ \E c \in LoadCalls : LoadRead(c) /\ LoadFrame
  \/ \E c \in LoadCalls : LoadDiscover(c) /\ LoadFrame
  \/ \E c \in LoadCalls : LoadSave(c) /\ LoadFrame
  \/ \E tid \in PreId..nextId, h \in ProjHandles, p \in ProjPids :
       PRunTarget(tid, h, p)
         /\ UNCHANGED <<cancelVars, loadVars, gres, scanVars, sideVars>>
  \/ \E h \in ProjHandles :
       Register(h) /\ UNCHANGED <<cancelVars, projVars>>
  \/ \E h \in ProjHandles :
       InstallAndReturn(h) /\ UNCHANGED <<cancelVars, projVars>>
  \/ \E h \in ProjHandles : Exit(h) /\ UNCHANGED <<cancelVars, projVars>>
  \/ \E h \in ProjHandles : Close(h) /\ UNCHANGED <<cancelVars, projVars>>
  \/ \E p \in Pids :
       PCancelTarget(p)
         /\ UNCHANGED <<files, load, nextId, discRet, lastRet, prun, gres,
                        scanVars, sideVars>>
  \/ CancelKill /\ UNCHANGED projVars
  \/ GetConfig

SpecProject == InitProject /\ [][NextProject]_vars

\* MainPresenter.load_project: the presenter awaits the orchestrator's
\* load_project and, in the step in which that call ends, makes its calls on
\* the view and returns. l is the call's record after the step: a returned
\* ProjectConfig is truthy, so `if config` passes; an exception is caught by
\* `except Exception` and the presenter returns None
StatusLoaded(name) == [text |-> "loaded successfully", project |-> name]
ErrorMessage == [text |-> "Failed to load project"]

Present(v, l) ==
  IF l.pc = "done"
    THEN [v EXCEPT !.names = Append(@, l.cfg.project_name),
                   !.statuses = Append(@, StatusLoaded(l.cfg.project_name)),
                   !.rets = Append(@, "None")]
    ELSE IF l.pc = "raised"
           THEN [v EXCEPT !.errors = Append(@, ErrorMessage),
                          !.rets = Append(@, "None")]
           ELSE v

\* what a step of the presenter's load_project leaves alone
PresenterFrame ==
  UNCHANGED <<execVars, cancelVars, prun, gres, scanVars, lock, snap>>

NextPresenter ==
  \/ \E c \in LoadCalls, r \in Roots :
       LoadStart(c, r) /\ view' = Present(view, load'[c]) /\ PresenterFrame
  \/ \E c \in LoadCalls :
       LoadExists(c) /\ view' = Present(view, load'[c]) /\ PresenterFrame
  \/ \E c \in LoadCalls :
       LoadRead(c) /\ view' = Present(view, load'[c]) /\ PresenterFrame
  \/ \E c \in LoadCalls :
       LoadDiscover(c) /\ view' = Present(view, load'[c]) /\ PresenterFrame
  \/ \E c \in LoadCalls :
       LoadSave(c) /\ view' = Present(view, load'[c]) /\ PresenterFrame

SpecPresenter == InitProject /\ [][NextPresenter]_vars

\* Discovery over the trees a project root may hold: discover_targets
\* called directly and by load_project, in one process or across restarts
PkgA == Under(RootA, <<"package.json">>)
PkgB == Under(RootA, <<"web", "package.json">>)
Forms == {"ok", "syntax", "nonmapping", "noscripts", "badscripts", "unreadable"}

PkgOptions ==
  {<<>>}
  \cup {<<Manifest(PkgA, f, IF f = "ok" THEN StartTest ELSE <<>>)>> :
          f \in Forms}
  \cup {<<Manifest(PkgA, f, IF f = "ok" THEN TestStart ELSE <<>>),
          Manifest(PkgB, "ok", BuildOnly)>> : f \in Forms}

MkA ==
  Makefile(Under(RootA, <<"Makefile">>), TRUE,
           <<Line(FALSE, ".PHONY", TRUE, FALSE), Line(FALSE, "build", TRUE, TRUE),
             Line(TRUE, "gcc", FALSE, FALSE), Line(FALSE, "test", TRUE, TRUE)>>)
MkB ==
  Makefile(Under(RootA, <<"lib", "makefile">>), TRUE,
           <<Line(FALSE, "CC", TRUE, FALSE), Line(FALSE, ".o", TRUE, TRUE),
             Line(FALSE, "all", TRUE, TRUE)>>)
MkC ==
  Makefile(Under(RootA, <<"doc", "Makefile">>), FALSE,
           <<Line(FALSE, "build", TRUE, TRUE)>>)

MakeOptions ==
  {<< <<>>, <<>> >>, << <<MkA>>, <<>> >>, << <<MkA>>, <<MkB>> >>,
   << <<MkA, MkC>>, <<>> >>, << <<MkA>>, <<MkA>> >>}

ShOptions ==
  {<<>>, <<Under(RootA, <<"run.sh">>), Under(RootA, <<"src", "deploy.sh">>)>>}

PyOptions ==
  {<<>>,
   <<Under(RootA, <<"tool.py">>), Under(RootA, <<"setup.py">>),
     Under(RootA, <<"src", "a.py">>), Under(RootA, <<"tests", "t.py">>),
     Under(RootA, <<"pkg", "__pycache__", "c.py">>),
     Under(RootA, <<"pkg", "__init__.py">>),
     Under(RootA, <<"scripts", "conftest.py">>),
     Under(RootA, <<"scripts", "go.py">>)>>}

\* The tree with files of every source, the trees that differ from it in the
\* files of one source, and the trees with the files of one source only
FullTree ==
  TreeOf(<<Manifest(PkgA, "ok", TestStart),
           Manifest(PkgB, "ok", BuildOnly)>>,
         << <<MkA>>, <<MkB>> >>,
         <<Under(RootA, <<"run.sh">>), Under(RootA, <<"src", "deploy.sh">>)>>,
         <<Under(RootA, <<"tool.py">>), Under(RootA, <<"setup.py">>),
           Under(RootA, <<"src", "a.py">>), Under(RootA, <<"tests", "t.py">>),
           Under(RootA, <<"pkg", "__pycache__", "c.py">>),
           Under(RootA, <<"pkg", "__init__.py">>),
           Under(RootA, <<"scripts", "conftest.py">>),
           Under(RootA, <<"scripts", "go.py">>)>>)
NoTree == TreeOf(<<>>, << <<>>, <<>> >>, <<>>, <<>>)

DiscTrees ==
  {[FullTree EXCEPT !.package_json = pkg] : pkg \in PkgOptions}
  \cup {[FullTree EXCEPT !.makefiles = mk] : mk \in MakeOptions}
  \cup {[FullTree EXCEPT !.shell_scripts = sh] : sh \in ShOptions}
  \cup {[FullTree EXCEPT !.python_scripts = py] : py \in PyOptions}
  \cup {[NoTree EXCEPT !.package_json = pkg] : pkg \in PkgOptions}
  \cup {[NoTree EXCEPT !.makefiles = mk] : mk \in MakeOptions}
  \cup {[NoTree EXCEPT !.shell_scripts = sh] : sh \in ShOptions}
  \cup {[NoTree EXCEPT !.python_scripts = py] : py \in PyOptions}

InitDiscovery ==
  /\ InitExec
  /\ InitSession
  /\ files = [q \in ConfigPaths |-> NoFile]
  /\ tree \in {[r \in Roots |-> IF r = RootA THEN t ELSE Tree(r)] :
                 t \in DiscTrees}
  /\ hashseed \in Seeds

NextDiscovery ==
  \/ Discover(RootA)
  \/ Restart
  \/ \E c \in LoadCalls : LoadStart(c, RootA) /\ LoadFrame
  \/ \E c \in LoadCalls : LoadExists(c) /\ LoadFrame
  \/ \E c \in LoadCalls : LoadRead(c) /\ LoadFrame
  \/ \E c \in LoadCalls : LoadDiscover(c) /\ LoadFrame
  \/ \E c \in LoadCalls : LoadSave(c) /\ LoadFrame

SpecDiscovery == InitDiscovery /\ [][NextDiscovery]_vars

\* ------------------------------------------------------------------------
\* Properties of the tracker
\* ------------------------------------------------------------------------
DistinctPids == \A g, h \in Started : g # h => hpid[g] # hpid[h]
AllReturned == \A h \in Started : pc[h] = "returned"
\* no close notification fired before its run_target call returned
ClosedAfterReturn == \A h \in Started : closeCb[h] # "default"
NotClosed == {h \in Started : closeCb[h] = "none"}

\* C1: when the run_target calls made so far have all returned, with
\* pairwise distinct pids, and every close notification fired after the
\* return, get_running_processes() is exactly the set of the pids whose
\* close notification has not fired: all N before any close, without the
\* closed ones afterwards, empty after all N.
C1_RegistryConsistency ==
  (AllReturned /\ DistinctPids /\ ClosedAfterReturn)
    => get_running_processes = {hpid[h] : h \in NotClosed}

C1_Witness ==
  /\ Cardinality(Started) >= 2
  /\ AllReturned /\ DistinctPids /\ ClosedAfterReturn
  /\ \E g, h \in Started :
       /\ closeCb[g] = "on_close"
       /\ closeCb[h] = "none"
       /\ get_running_processes = {hpid[h]}

\* C2: in every state where run_target has returned and the close
\* notification of its process has fired, the registry does not hold that
\* process under its pid.
C2_CloseDestroysEntry ==
  \A h \in Handles :
    (pc[h] = "returned" /\ closeCb[h] # "none") => registry[hpid[h]] # h

\* C3: cancel_target(pid) for a pid that is no key of the registry never
\* raises, its lookup finds no handle, and neither its lookup nor its kill
\* step invokes kill on a handle or changes the registry.
C3_CancelNoOp ==
  [][ /\ cres' # "raised"
      /\ (cpc = "idle" /\ cpc' = "looked" /\ registry[cpid'] = NoHandle)
           => (cproc' = NoHandle /\ registry' = registry /\ killed' = killed)
      /\ (cpc = "looked" /\ cpc' = "idle" /\ cproc = NoHandle)
           => (cres' = "noop" /\ registry' = registry /\ killed' = killed)
    ]_vars

C3_Witness ==
  /\ cres = "noop"
  /\ \E g, h \in Started :
       /\ closeCb[g] = "on_close"
       /\ registry[hpid[g]] = NoHandle
       /\ registry[hpid[h]] = h
       /\ ~killed[h]

\* C4 (as amended): cancel_target(p) looks up the handle registered under p
\* and invokes kill on exactly that handle; when the handle of a returned
\* run_target is registered and killed and its close notification is still
\* to come, its pid is eventually absent from get_running_processes(); and
\* a handle once removed is never registered again, so the pid reappears
\* only when a later run_target registers a new process under the same pid.
KilledRegistered(h) ==
  /\ killed[h]
  /\ pc[h] = "returned"
  /\ closeCb[h] = "none"
  /\ registry[hpid[h]] = h

C4_CancelLive ==
  /\ [][ /\ (cpc = "idle" /\ cpc' = "looked") => cproc' = registry[cpid']
         /\ (cpc = "looked" /\ cpc' = "idle")
              => \A h \in Handles : killed'[h] = (killed[h] \/ h = cproc)
         /\ \A h \in Handles :
              (pc[h] = "returned" /\ registry[hpid[h]] # h)
                => registry'[hpid[h]] # h
         /\ \A p \in Pids :
              (registry[p] = NoHandle /\ registry'[p] # NoHandle)
                => (pc[registry'[p]] = "executed"
                    /\ pc'[registry'[p]] = "registered")
       ]_vars
  /\ \A h \in Handles :
       KilledRegistered(h) ~> (hpid[h] \notin get_running_processes)

C4_Witness ==
  \E h \in Handles :
    /\ killed[h]
    /\ closeCb[h] = "on_close"
    /\ hpid[h] \notin get_running_processes

\* C4 (as claimed): once the pid of a killed and closed process is absent
\* from get_running_processes(), it stays absent.
C4_StaysAbsent ==
  [][ \A h \in Handles :
        (killed[h] /\ closeCb[h] = "on_close"
           /\ hpid[h] \notin RunningPids(registry))
          => hpid[h] \notin RunningPids(registry') ]_vars

\* C5: a step removes a pid from the registry only if it is the close
\* callback installed by run_target firing for a process of that pid, and
\* a registered process that was killed and whose close notification has
\* not arrived is still registered after every step.
C5_SingleRemoval ==
  [][ /\ \A p \in Pids :
           (registry[p] # NoHandle /\ registry'[p] = NoHandle)
             => \E h \in Handles :
                  /\ hpid[h] = p
                  /\ pc[h] = "returned"
                  /\ closeCb[h] = "none"
                  /\ closeCb'[h] = "on_close"
      /\ \A h \in Handles :
           (killed[h] /\ pc[h] \in {"registered", "returned"}
              /\ closeCb'[h] = "none" /\ hpid[h] \in RunningPids(registry))
             => hpid[h] \in RunningPids(registry')
    ]_vars

\* C11: no run_target call ends by raising: a call whose spawn fails in the
\* shell capability still returns a pid with its handle registered.
C11_SpawnFailureAsync ==
  \A h \in Handles :
    (pc[h] # "idle" /\ ~SpawnOK(hargs[h])) => pc[h] # "raised"

\* ------------------------------------------------------------------------
\* Properties of the orchestrator
\* ------------------------------------------------------------------------
LoadPath(c) == config_path(load[c].root)
AnyLoadReturned == \E c \in LoadCalls : load[c].pc = "done"
TargetIds(cfg) == {cfg.targets[i].id : i \in 1..Len(cfg.targets)}

\* C6: a load_project call to which file_exists answers that the
\* configuration exists invokes neither discover_targets nor save_config,
\* writes nothing, and adopts and returns the config built from the file; a
\* call to which it answers that none exists invokes discover_targets once,
\* then save_config once with the config built from the discovered targets
\* and the root's base name, and adopts and returns that config when the
\* write is done; no call that adopted a loaded config has discovered or
\* saved.
C6_LoadDiscoverExclusive ==
  [][ \A c \in LoadCalls :
        /\ (load[c].pc = "exists" /\ load'[c].pc = "read")
             => file_exists(files, LoadPath(c))
        /\ (load[c].pc = "exists" /\ load'[c].pc = "discover")
             => ~file_exists(files, LoadPath(c))
        /\ load'[c].pc \in {"read", "raised"}
             => (load'[c].ndisc = 0 /\ load'[c].nsave = 0)
        /\ load'[c].pc = "discover"
             => (load'[c].ndisc = 1 /\ load'[c].nsave = 0)
        /\ load'[c].pc = "save"
             => (load'[c].ndisc = 1 /\ load'[c].nsave = 1)
        /\ (load[c].pc = "read" /\ load'[c].pc = "done")
             => /\ load'[c].how = "loaded"
                /\ load'[c].ndisc = 0 /\ load'[c].nsave = 0
                /\ files' = files
                /\ load'[c].cfg =
                     ProjectConfigFromData(deserialize(files[LoadPath(c)]))
                /\ config' = load'[c].cfg
        /\ (load[c].pc = "save" /\ load'[c].pc = "done")
             => /\ load'[c].how = "discovered"
                /\ load'[c].ndisc = 1 /\ load'[c].nsave = 1
                /\ load'[c].saved =
                     ProjectConfig(basename(load[c].root), load'[c].disc)
                /\ load'[c].cfg = load'[c].saved
                /\ files'[LoadPath(c)] = serialize(load'[c].saved)
                /\ config' = load'[c].cfg
        /\ (load'[c].pc = "done" /\ load[c].pc # "done")
             => load[c].pc \in {"read", "save"}
    ]_vars

C6_Witness ==
  \E c, d \in LoadCalls :
    /\ load[c].pc = "done" /\ load[c].how = "discovered"
    /\ load[d].pc = "done" /\ load[d].how = "loaded"

\* What the claims compare of a configuration: the project name and, in
\* order, id, name, command and source_file of each target
TargetView(t) ==
  [id |-> t.id, name |-> t.name, command |-> t.command,
   source_file |-> t.source_file]
ConfigView(cfg) ==
  [project_name |-> cfg.project_name,
   targets |-> [i \in 1..Len(cfg.targets) |-> TargetView(cfg.targets[i])]]

\* C7: a load_project call that starts after a discovering load of the same
\* root returned C1 and adopts the persisted config returns a config with
\* the project name and the targets of C1, and while that config is the
\* session's, run_target succeeds for every target id of C1.
C7_RoundTrip ==
  \A c \in LoadCalls :
    (load[c].pc = "done" /\ load[c].how = "loaded" /\ load[c].seen # NoConfig)
      => /\ ConfigView(load[c].cfg) = ConfigView(load[c].seen)
         /\ (config = load[c].cfg /\ project_root = load[c].root)
              => \A tid \in TargetIds(load[c].seen) :
                   RunTargetOutcome(config, project_root, tid).kind = "run"

\* C8: a run_target call made while no config is adopted fails with "not
\* loaded", spawns nothing and leaves registry and session as they were; a
\* run_target call made after a load_project call has returned a config does
\* not fail with "not loaded".
C8_NotLoaded ==
  [][ (prun' # prun) =>
        /\ (config = NoConfig)
             => /\ prun'.kind = "not_loaded"
                /\ UNCHANGED execVars
                /\ UNCHANGED <<project_root, config>>
        /\ AnyLoadReturned => prun'.kind # "not_loaded"
    ]_vars

\* C9: a run_target call made with a config adopted and a target_id that no
\* target of the config has fails with "not found" carrying the target_id,
\* spawns nothing and leaves the registry as it was.
C9_NotFound ==
  [][ (prun' # prun /\ config # NoConfig
         /\ prun'.tid \notin TargetIds(config))
        => /\ prun'.kind = "not_found"
           /\ UNCHANGED execVars
    ]_vars

\* C10: a run_target call made with a config adopted and the id of one of
\* its targets starts exactly one process, through the tracker, with the
\* command of that target, the session's project_root as working directory
\* and the shell override of the config if it has one, else the default
\* shell.
C10_Delegation ==
  [][ (prun' # prun /\ config # NoConfig /\ prun'.tid \in TargetIds(config))
        => /\ prun'.kind = "run"
           /\ prun'.target.id = prun'.tid
           /\ prun'.target \in {config.targets[i] : i \in 1..Len(config.targets)}
           /\ \E h \in Handles :
                /\ pc[h] = "idle" /\ pc'[h] = "executed"
                /\ \A g \in Handles \ {h} : pc'[g] = pc[g]
                /\ hargs'[h] =
                     [command |-> prun'.target.command,
                      cwd |-> project_root,
                      shell |-> IF config.shell # PyNone
                                  THEN config.shell ELSE get_system_shell]
    ]_vars

\* ------------------------------------------------------------------------
\* Properties of discovery
\* ------------------------------------------------------------------------

\* name, command and source_file of each target, in order
ScanView(ts) ==
  [i \in 1..Len(ts) |->
     [name |-> ts[i].name, command |-> ts[i].command,
      source_file |-> ts[i].source_file]]

\* the tree without the files that are malformed or cannot be read
WellFormed(tr) ==
  LET okm(f) == f.form = "ok"
      okf(f) == f.readable
  IN [tr EXCEPT !.package_json = SelectSeq(@, okm),
                !.makefiles = [i \in 1..2 |-> SelectSeq(@[i], okf)]]

Scanned == dout # NoResult
ScannedOK == dout # NoResult /\ dout.err = "none"
ScanTree == tree[RootA]

\* C12: a discover_targets call returns without raising, and its result is
\* the result for the same tree without its malformed and unreadable files.
C12_FailureIsolation ==
  Scanned =>
    /\ dout.err = "none"
    /\ ScanView(dout.targets)
         = ScanView(discover_targets(WellFormed(ScanTree), FirstId,
                                     dout.seed).targets)

\* C13: two discover_targets calls on the same unchanged tree that both
\* return give lists of the same length that agree, position by position,
\* on name, command and source_file.
C13_Idempotence ==
  (dn >= 2 /\ dout.err = "none" /\ dprev.err = "none")
    => ScanView(dout.targets) = ScanView(dprev.targets)

\* the targets whose source_file is path, in order
FromFile(ts, path) ==
  LET from(t) == t.source_file = path IN SelectSeq(ts, from)

FoundManifests ==
  {ScanTree.package_json[i] : i \in 1..Len(ScanTree.package_json)}
FoundMakefiles ==
  {ScanTree.makefiles[1][i] : i \in 1..Len(ScanTree.makefiles[1])}
    \cup {ScanTree.makefiles[2][i] : i \in 1..Len(ScanTree.makefiles[2])}
FoundShell ==
  {ScanTree.shell_scripts[i] : i \in 1..Len(ScanTree.shell_scripts)}
FoundPython ==
  {ScanTree.python_scripts[i] : i \in 1..Len(ScanTree.python_scripts)}

\* 1 for a target of a manifest, 2 of a build-rule file, 3 of a shell
\* script, 4 of an interpreter script
SourceRank(t) ==
  IF \E f \in FoundManifests : f.path = t.source_file THEN 1
  ELSE IF \E f \in FoundMakefiles : f.path = t.source_file THEN 2
  ELSE IF t.source_file \in FoundShell THEN 3
  ELSE 4

\* the first line of f that starts with the word w
LinePos(f, w) ==
  CHOOSE a \in 1..Len(f.lines) :
    f.lines[a].word = w /\ \A b \in 1..(a - 1) : f.lines[b].word # w

\* C14: in every result of discover_targets the targets of manifests come
\* before those of build-rule files, these before those of shell scripts,
\* these before those of interpreter scripts; the targets of one manifest
\* are in the order of its scripts mapping, those of one build-rule file in
\* the order of their lines in the file.
C14_SourceOrdering ==
  ScannedOK =>
    LET ts == dout.targets
    IN /\ \A i, j \in 1..Len(ts) :
            i < j => SourceRank(ts[i]) <= SourceRank(ts[j])
       /\ \A f \in FoundManifests :
            f.form = "ok" =>
              LET own == FromFile(ts, f.path)
              IN /\ Len(own) = Len(f.scripts)
                 /\ \A k \in 1..Len(own) : own[k].name = f.scripts[k].key
       /\ \A f \in FoundMakefiles :
            f.readable =>
              LET own == FromFile(ts, f.path)
              IN \A i, j \in 1..Len(own) :
                   i < j => LinePos(f, own[i].name) < LinePos(f, own[j].name)

C14_Witness ==
  /\ ScannedOK
  /\ \E i, j, k, l \in 1..Len(dout.targets) :
       /\ i < j /\ j < k /\ k < l
       /\ SourceRank(dout.targets[i]) = 1
       /\ SourceRank(dout.targets[j]) = 2
       /\ SourceRank(dout.targets[k]) = 3
       /\ SourceRank(dout.targets[l]) = 4
  /\ \E f \in FoundMakefiles : Len(FromFile(dout.targets, f.path)) >= 2

\* The tree of the scenario: a package.json with the scripts start and test,
\* and nothing else
ScenarioTree == [NoTree EXCEPT !.package_json = <<Manifest(PkgA, "ok", StartTest)>>]

\* C15: every scan gives, for every manifest that is a mapping with a scripts
\* mapping, exactly one target per script key, in order, named after the
\* key, with the command "npm run <key>" and the manifest path as source;
\* and a load_project call that discovers on the root holding only a
\* package.json with the scripts start and test returns a config with
\* exactly the targets start and test, the configuration file existing
\* afterwards with the encoding of that config.
C15_PackageScripts ==
  /\ [](Scanned =>
          \A f \in FoundManifests :
            f.form = "ok" =>
              ScanView(FromFile(dout.targets, f.path))
                = [k \in 1..Len(f.scripts) |->
                     [name |-> f.scripts[k].key,
                      command |-> "npm run " \o f.scripts[k].key,
                      source_file |-> f.path]])
  /\ [][ \A c \in LoadCalls :
           (load[c].pc = "save" /\ load'[c].pc = "done"
              /\ ScanTree = ScenarioTree)
             => /\ lastRet'.project_name = "alpha"
                /\ ScanView(lastRet'.targets)
                     = <<[name |-> "start", command |-> "npm run start",
                          source_file |-> PkgA],
                         [name |-> "test", command |-> "npm run test",
                          source_file |-> PkgA]>>
                /\ file_exists(files', config_path(RootA))
                /\ files'[config_path(RootA)] = serialize(lastRet')
       ]_vars

\* C16: in every result of discover_targets, each rule header at the start
\* of a line of a readable build-rule file whose name consists of letters,
\* digits, "_" and "-" has a target named after it with the command
\* "make <name>", and no target has a name that starts with ".".
C16_PhonyExclusion ==
  ScannedOK =>
    /\ \A f \in FoundMakefiles :
         f.readable =>
           \A a \in 1..Len(f.lines) :
             (f.lines[a].rule /\ ~f.lines[a].indent /\ f.lines[a].colon
                /\ f.lines[a].word \in IdentWords)
               => \E i \in 1..Len(dout.targets) :
                    ScanView(dout.targets)[i]
                      = [name |-> f.lines[a].word,
                         command |-> "make " \o f.lines[a].word,
                         source_file |-> f.path]
    /\ \A i \in 1..Len(dout.targets) : dout.targets[i].name \notin DotWords

C16_Witness ==
  /\ ScannedOK
  /\ \E f \in FoundMakefiles :
       /\ f.lines[1].word = ".PHONY"
       /\ \E i \in 1..Len(dout.targets) :
            /\ dout.targets[i].name = "build"
            /\ dout.targets[i].source_file = f.path
  /\ \E f \in FoundMakefiles : \E a \in 1..Len(f.lines) : f.lines[a].word = ".o"

\* the basename is not excluded and the path has none of the segments
\* /src/, /tests/, /__pycache__/
Runnable(q) ==
  /\ basename(q) \notin {"setup.py", "__init__.py", "conftest.py"}
  /\ \A d \in {"src", "tests", "__pycache__"} :
       \A i \in 1..(Len(q.parts) - 1) : q.parts[i] = d => (i = 1 /\ ~q.abs)

\* C17: in every result of discover_targets, every shell script found has
\* exactly one target, named by its basename with the command "bash <path>",
\* and an interpreter script found has exactly one target, named by its
\* basename with the command "python <path>", if its basename is not
\* excluded and its path has no excluded segment, and none otherwise.
C17_ScriptFilter ==
  ScannedOK =>
    /\ \A q \in FoundShell :
         ScanView(FromFile(dout.targets, q))
           = <<[name |-> basename(q), command |-> "bash " \o PathStr(q),
                source_file |-> q]>>
    /\ \A q \in FoundPython :
         ScanView(FromFile(dout.targets, q))
           = IF Runnable(q)
               THEN <<[name |-> basename(q),
                       command |-> "python " \o PathStr(q),
                       source_file |-> q]>>
               ELSE <<>>

C17_Witness ==
  /\ ScannedOK
  /\ \E q \in FoundShell : InDir(q, "src")
  /\ \E q \in FoundPython : ~Runnable(q)
  /\ \E i \in 1..Len(dout.targets) : dout.targets[i].name = "go.py"

\* ------------------------------------------------------------------------
\* Properties of the session state and of the configuration store
\* ------------------------------------------------------------------------

\* C18: the pair (project_root, config) changes only in a step of a
\* load_project call; a step of run_target (successful or failing), of
\* cancel_target (for any pid, with or without a project loaded) or of
\* get_config leaves both unchanged, and cancel_target never raises.
C18_SessionFrame ==
  [][ /\ (project_root' # project_root \/ config' # config)
        => \E c \in LoadCalls : load'[c].pc # load[c].pc
      /\ (<<execVars, cancelVars, prun, gres>>'
            # <<execVars, cancelVars, prun, gres>>)
        => (project_root' = project_root /\ config' = config)
      /\ cres' # "raised"
    ]_vars

C18_Witness ==
  /\ config # NoConfig
  /\ project_root = RootA
  /\ prun.kind = "run"
  /\ cres = "killed"
  /\ gres = config

\* C19: get_config returns absent as long as no load_project call has
\* adopted a config, in every state it returns the config that the most
\* recently completed successful load_project call returned, and a call
\* changes nothing but its own result.
C19_PureAccessor ==
  /\ [](/\ get_config = lastRet
        /\ (\A c \in LoadCalls : load[c].pc # "done") => get_config = NoConfig)
  /\ [][ gres' # gres
           => /\ gres' = lastRet
              /\ UNCHANGED <<execVars, cancelVars, loadVars, prun, scanVars>>
       ]_vars

C19_Witness ==
  /\ gres # NoResult
  /\ gres # NoConfig
  /\ gres = lastRet
  /\ \A c \in LoadCalls : load[c].pc = "done"
  /\ \E c, d \in LoadCalls : load[c].cfg # load[d].cfg

\* C20: the store changes only in the step in which a load_project call
\* that found no persisted configuration gets the answer of its one
\* write_file call, and only at <root>/.project-dashboard.yml for the root
\* passed to that call; a call makes at most one save, a call that found a
\* persisted configuration none, and the step in which discover_targets
\* answers writes nothing.
C20_PersistenceFrame ==
  /\ [](\A c \in LoadCalls :
          /\ load[c].nsave <= 1
          /\ load[c].nsave <= load[c].ndisc
          /\ load[c].how = "loaded" => (load[c].nsave = 0 /\ load[c].ndisc = 0))
  /\ [][ /\ files' # files
           => \E c \in LoadCalls :
                /\ load[c].pc = "save" /\ load'[c].pc = "done"
                /\ load[c].ndisc = 1 /\ load[c].nsave = 1
                /\ load[c].root \in Roots
                /\ \A q \in ConfigPaths :
                     q # path_join(load[c].root, CONFIG_FILE_NAME)
                       => files'[q] = files[q]
         /\ \A c \in LoadCalls :
              /\ load[c].pc \in {"done", "raised"} => load'[c] = load[c]
              /\ (load[c].pc = "discover" /\ load'[c].pc # "discover")
                   => files' = files
       ]_vars

C20_Witness ==
  \E c, d \in LoadCalls :
    /\ load[c].pc = "done" /\ load[c].how = "discovered"
    /\ load[c].root = RootA
    /\ files[path_join(RootA, CONFIG_FILE_NAME)] = serialize(load[c].saved)
    /\ load[d].pc = "done" /\ load[d].how = "loaded"
    /\ prun.kind # "none" /\ cres # "none" /\ gres # NoResult

\* ------------------------------------------------------------------------
\* Properties of the tracker with the lock explicit
\* ------------------------------------------------------------------------

\* C21: the list get_running_processes() returns holds each pid that is a
\* key of the registry at the moment of the call exactly once and no other
\* pid; a step that changes the registry afterwards leaves the contents of
\* the returned list as they were, and a step in which the caller changes
\* the list leaves the registry as it was.
C21_SnapshotCopy ==
  [][ /\ (snap.pc = "locked" /\ snap'.pc = "idle")
           => \A p \in Pids :
                Contents(snap', registry')[p]
                  = (IF registry[p] # NoHandle THEN 1 ELSE 0)
      /\ (snap.obj # "none" /\ snap'.pc = snap.pc /\ registry' # registry)
           => Contents(snap', registry') = Contents(snap, registry)
      /\ (snap.obj # "none" /\ snap'.pc = snap.pc
            /\ Contents(snap', registry') # Contents(snap, registry))
           => registry' = registry
    ]_vars

\* a list was returned and since then one of its pids has been removed from
\* the registry, while a pid that is registered is not in the list (it was
\* registered later, or the caller has removed it from the list)
C21_Witness ==
  /\ snap.obj # "none"
  /\ snap.pc = "idle"
  /\ \E p, q \in Pids :
       /\ p # q
       /\ Contents(snap, registry)[p] = 1 /\ registry[p] = NoHandle
       /\ Contents(snap, registry)[q] = 0 /\ registry[q] # NoHandle

\* the tasks that are inside a `with self._lock:` block
InLock ==
  {RunTask(h) : h \in {g \in Handles : pc[g] = "locked"}}
    \cup {CloseTask(h) : h \in {g \in Handles : closeCb[g] = "entered"}}
    \cup (IF cpc \in {"locked", "kill_locked"} THEN {CancelTask} ELSE {})
    \cup (IF snap.pc = "locked" THEN {SnapTask} ELSE {})

\* C22: in every state at most one task is inside a with-block of the
\* registry lock, and it is the holder of the lock; every step that changes
\* the registry, the lookup of cancel_target and the read of
\* get_running_processes are made by the holder of the lock, which releases
\* it in that step; and the task that is in execute, or that invokes kill,
\* does not hold the lock.
C22_LockScope ==
  /\ [](/\ Cardinality(InLock) <= 1
        /\ lock = Free <=> InLock = {}
        /\ lock # Free => lock \in InLock)
  /\ [][ /\ registry' # registry
              => \/ \E h \in Handles :
                      /\ pc[h] = "locked" /\ pc'[h] = "registered"
                      /\ lock = RunTask(h) /\ lock' = Free
                 \/ \E h \in Handles :
                      /\ closeCb[h] = "entered" /\ closeCb'[h] = "on_close"
                      /\ lock = CloseTask(h) /\ lock' = Free
         /\ (cpc = "locked" /\ cpc' = "looked")
              => (lock = CancelTask /\ lock' = Free)
         /\ (snap.pc = "locked" /\ snap'.pc = "idle")
              => (lock = SnapTask /\ lock' = Free)
         /\ \A h \in Handles :
              (pc[h] = "idle" /\ pc'[h] = "executed")
                => (lock # RunTask(h) /\ lock' # RunTask(h))
         /\ killed' # killed => (lock # CancelTask /\ lock' # CancelTask)
       ]_vars

\* the cancel_target call holds the lock while a run_target call waits to
\* register, a close callback waits to remove and a handle was killed
C22_Witness ==
  /\ lock = CancelTask
  /\ \E h \in Handles : pc[h] = "executed"
  /\ \E h \in Handles :
       /\ life[h] = "exited" /\ closeCb[h] = "none" /\ Installed(h)
       /\ killed[h]

\* C23: no firing of the close callback of run_target raises; a firing for
\* a process whose callback has fired before, or whose pid is no key of the
\* registry, leaves the pid absent and every other entry as it is; and a
\* firing that finds the pid absent leaves the registry unchanged.
C23_CloseIdempotent ==
  [][ /\ \A h \in Handles : closeCb'[h] # "raised"
      /\ cres' # "raised"
      /\ (cpc = "kill_locked" /\ cpc' = "idle")
           => /\ (closeCb[cproc] = "on_close"
                    \/ registry[hpid[cproc]] = NoHandle)
                => /\ registry'[hpid[cproc]] = NoHandle
                   /\ \A q \in Pids \ {hpid[cproc]} : registry'[q] = registry[q]
              /\ registry[hpid[cproc]] = NoHandle => registry' = registry
      /\ \A h \in Handles :
           (closeCb[h] = "entered" /\ closeCb'[h] # "entered"
              /\ registry[hpid[h]] = NoHandle)
             => registry' = registry
    ]_vars

\* the callback of a process has fired twice, and its pid is absent
C23_Witness ==
  \E h \in Handles :
    /\ closeCb[h] = "on_close_twice"
    /\ registry[hpid[h]] = NoHandle
    /\ cres = "killed"

\* no run_target call made after that of h has got the pid of h
NoLaterSamePid(h) ==
  \A g \in Started : g > h => hpid[g] # hpid[h]

\* C24: a process that is registered and has signalled an error, and so will
\* never signal close, is in get_running_processes() after every step, as
\* long as no later run_target call gets its pid.
C24_ErrorKeepsEntry ==
  [][ \A h \in Handles :
        (closeCb[h] = "error" /\ registry[hpid[h]] = h /\ NoLaterSamePid(h)
           /\ NoLaterSamePid(h)')
          => hpid[h] \in RunningPids(registry') ]_vars

\* C25: the close callback of a process removes no entry that holds the
\* handle of another process, and the pid of every process for which
\* run_target has returned and whose close notification has not fired is a
\* key of the registry.
C25_EntryOwnership ==
  /\ [][ \A h \in Handles :
           (closeCb[h] = "none" /\ closeCb'[h] = "on_close"
              /\ registry[hpid[h]] # h)
             => registry' = registry ]_vars
  /\ [](\A h \in Handles :
          (pc[h] = "returned" /\ closeCb[h] = "none")
            => hpid[h] \in RunningPids(registry))

\* C26: cancel_target never invokes kill on a handle whose close callback
\* has already fired: the callback does not run between the lookup and the
\* kill.
C26_KillOnlyRegistered ==
  [][ (cpc = "looked" /\ cpc' = "idle" /\ cproc # NoHandle)
        => closeCb[cproc] # "on_close" ]_vars

\* C27: every cancel_target call returns, also when kill delivers the
\* close notification on the calling thread and the callback takes the
\* lock, and whatever the other tasks do; and cancel_target never waits for
\* the lock while holding it.
C27_CancelTerminates ==
  /\ [](cpc \in {"called", "in_kill"} => lock # CancelTask)
  /\ (cpc # "idle") ~> (cpc = "idle")

\* a cancel_target call has returned from a kill that delivered the close
\* notification synchronously, while a run_target call was taking the lock
C27_Witness ==
  /\ cpc = "idle"
  /\ cres = "killed"
  /\ \E h \in Handles : killed[h] /\ closeCb[h] = "on_close" /\ life[h] = "running"
  /\ \E h \in Handles : pc[h] = "locked"

\* ------------------------------------------------------------------------
\* Properties of the session under overlapping and failing loads
\* ------------------------------------------------------------------------

\* C28: session consistency under overlapping loads. Whenever no
\* load_project call is in progress, the adopted config is the one some
\* call loaded or discovered for the adopted project_root. Stated for the
\* runs in which no call has raised, so that the only way two roots meet
\* is the interleaving of two calls: the session then holds the root and the
\* config of one and the same returned call.
C28_SessionConsistency ==
  (/\ \A c \in LoadCalls : load[c].pc \in {"idle", "done"}
   /\ config # NoConfig)
    => \E c \in LoadCalls :
         /\ load[c].pc = "done"
         /\ load[c].root = project_root
         /\ load[c].cfg = config

\* the root the session holds when call c starts: calls start in the order
\* of their numbers, and each start assigns its root
PrevRoot(c) == IF c = 1 THEN NoRoot ELSE load[c - 1].root

\* C29: a failing load_project leaves the session unchanged. At the step in
\* which a call raises, no later call having started and every earlier call
\* having returned a config, project_root is the root the session held
\* before the call and config is what it was, so that run_target does after
\* the failed call what it would have done before it.
C29_FailedLoadKeepsSession ==
  [][ \A c \in LoadCalls :
        (/\ load[c].pc # "raised"
         /\ load'[c].pc = "raised"
         /\ \A d \in LoadCalls : d > c => load[d].pc = "idle"
         /\ \A d \in LoadCalls : d < c => load[d].pc = "done")
          => /\ project_root' = PrevRoot(c)
             /\ config' = config
             /\ \A tid \in PreId..nextId :
                  RunTargetOutcome(config', project_root', tid)
                    = RunTargetOutcome(config, PrevRoot(c), tid) ]_vars

\* ------------------------------------------------------------------------
\* Properties of the presenter
\* ------------------------------------------------------------------------

\* C30: in the step in which a load_project call of the presenter succeeds,
\* the view receives set_project_name with the loaded project's name and
\* update_target_list once with the loaded configuration's targets in
\* order, and no show_error; in the step in which the orchestrator's call
\* raises, the presenter returns normally, show_error is called once and
\* neither set_project_name nor update_target_list is called.
C30_PresenterNotifies ==
  [][ \A c \in LoadCalls :
        /\ (load[c].pc # "done" /\ load'[c].pc = "done")
             => /\ view'.names = Append(view.names, load'[c].cfg.project_name)
                /\ view'.lists = Append(view.lists, load'[c].cfg.targets)
                /\ view'.errors = view.errors
        /\ (load[c].pc # "raised" /\ load'[c].pc = "raised")
             => /\ view'.rets = Append(view.rets, "None")
                /\ Len(view'.errors) = Len(view.errors) + 1
                /\ view'.names = view.names
                /\ view'.lists = view.lists ]_vars

====
